---- MODULE Spec2Model ----
(***************************************************************************)
(* Request assembly, response streaming and terminal detection of          *)
(* codex-rs/core: client_common.rs and terminal.rs.                        *)
(*                                                                         *)
(* A Rust String is a sequence of one-character strings, so that trim,     *)
(* contains, format! and join are computed character by character.         *)
(* Option<T> is a sequence of length at most one.                          *)
(***************************************************************************)
EXTENDS Integers, Sequences, FiniteSets, TLC

VARIABLES
    sess,               \* the Session the turn is built from
    prompt,             \* the turn's Prompt
    formatted_input,    \* Option<Vec<ResponseItem>>: last result of get_formatted_input
    error_logged,       \* tracing::error! was called by get_formatted_environment_context
    model_family,       \* ModelFamily capability flags
    effort,             \* ReasoningEffortConfig
    summary,            \* ReasoningSummaryConfig
    full_instructions,  \* Option<String>: last result of get_full_instructions
    reasoning,          \* Option<Option<Reasoning>>: last result of create_reasoning_param_for_request
    rx_event,           \* items buffered in the mpsc channel
    tx_open,            \* the Sender has not been dropped
    rx_waker,           \* the consumer's task is parked in poll_recv
    pushed,             \* every item the producer has sent, in order
    polled,             \* every Poll::Ready result poll_next has returned, in order
    env,                \* the process environment
    TERMINAL,           \* the OnceLock<String> cell
    once,               \* state of the OnceLock's Once
    pc,                 \* per thread: position inside user_agent
    seen,               \* the environment as read so far by the running detect_terminal
    returned,           \* per thread: the strings user_agent has returned, in order
    detections,         \* number of times detect_terminal has run
    env_changes         \* number of set_var/remove_var calls made so far

promptVars == <<sess, prompt, formatted_input, error_logged>>
requestVars == <<model_family, effort, summary, full_instructions, reasoning>>
streamVars == <<rx_event, tx_open, rx_waker, pushed, polled>>
terminalVars == <<env, TERMINAL, once, pc, seen, returned, detections, env_changes>>
vars == <<promptVars, requestVars, streamVars, terminalVars>>

-----------------------------------------------------------------------------
(* Option<T> *)
None == <<>>
Some(v) == <<v>>
IsSome(o) == Len(o) = 1
Unwrap(o) == o[1]

(* format! and friends on character sequences *)
Concat3(a, b, c) == a \o b \o c

RECURSIVE Join(_, _)
Join(sections, sep) ==
    IF Len(sections) = 0 THEN <<>>
    ELSE IF Len(sections) = 1 THEN sections[1]
    ELSE sections[1] \o sep \o Join(Tail(sections), sep)

-----------------------------------------------------------------------------
(* Bounds of the model *)
MaxHistory == 2

-----------------------------------------------------------------------------
(* Constants of client_common.rs *)
BASE_INSTRUCTIONS == <<"Y", "o", "u", " ", "a", "r", "e", " ", "C", "o", "d", "e", "x", ".">>
APPLY_PATCH_TOOL_INSTRUCTIONS == <<"#", "#", " ", "a", "p", "p", "l", "y", "_", "p", "a", "t", "c", "h">>
USER_INSTRUCTIONS_START == <<"<", "u", "s", "e", "r", "_", "i", "n", "s", "t", "r", "u", "c", "t", "i", "o", "n", "s", ">", "\n", "\n">>
USER_INSTRUCTIONS_END == <<"\n", "\n", "<", "/", "u", "s", "e", "r", "_", "i", "n", "s", "t", "r", "u", "c", "t", "i", "o", "n", "s", ">">>

(* ResponseItem::Message { id, role, content: vec![ContentItem::InputText { text }] } *)
Message(role, text) ==
    [type |-> "message", id |-> None, role |-> role,
     content |-> <<[type |-> "input_text", text |-> text]>>]

UserMessage(text) == Message(<<"u", "s", "e", "r">>, text)

-----------------------------------------------------------------------------
(* Session state read by From<&Session> *)
InvalidByte == "\\xFF"

Cwds == {<<"/", "r", "e", "p", "o">>, <<"/", InvalidByte>>}

ApprovalPolicies == {"UnlessTrusted", "OnFailure", "OnRequest", "Never"}

SandboxPolicies ==
    {[kind |-> "DangerFullAccess"], [kind |-> "ReadOnly"]}
        \cup {[kind |-> "WorkspaceWrite", network_access |-> b] : b \in BOOLEAN}

Sessions == [cwd : Cwds, approval_policy : ApprovalPolicies, sandbox_policy : SandboxPolicies]

sandbox_mode_from(policy) ==
    CASE policy.kind = "DangerFullAccess" -> "DangerFullAccess"
      [] policy.kind = "ReadOnly" -> "ReadOnly"
      [] policy.kind = "WorkspaceWrite" -> "WorkspaceWrite"

network_access_ww_restricted(policy) ==
    CASE policy.kind = "DangerFullAccess" -> "Enabled"
      [] policy.kind = "ReadOnly" -> "Restricted"
      [] policy.kind = "WorkspaceWrite" -> "Restricted"

network_access_from(policy) ==
    CASE policy.kind = "DangerFullAccess" -> "Enabled"
      [] policy.kind = "ReadOnly" -> "Restricted"
      [] policy.kind = "WorkspaceWrite" ->
            IF policy.network_access THEN "Enabled" ELSE "Restricted"

(* impl From<&Session> for EnvironmentContext *)
EnvironmentContextFrom(s) ==
    [cwd |-> s.cwd,
     approval_policy |-> s.approval_policy,
     sandbox_mode |-> sandbox_mode_from(s.sandbox_policy),
     network_access |-> network_access_from(s.sandbox_policy)]

-----------------------------------------------------------------------------
(* Serialization of EnvironmentContext: serde rename rules of the type,    *)
(* written by the quick_xml serializer with an indent of two spaces.       *)
KebabApproval(a) ==
    CASE a = "UnlessTrusted" -> <<"u", "n", "t", "r", "u", "s", "t", "e", "d">>
      [] a = "OnFailure" -> <<"o", "n", "-", "f", "a", "i", "l", "u", "r", "e">>
      [] a = "OnRequest" -> <<"o", "n", "-", "r", "e", "q", "u", "e", "s", "t">>
      [] a = "Never" -> <<"n", "e", "v", "e", "r">>

KebabSandboxMode(m) ==
    CASE m = "DangerFullAccess" -> <<"d", "a", "n", "g", "e", "r", "-", "f", "u", "l", "l", "-", "a", "c", "c", "e", "s", "s">>
      [] m = "ReadOnly" -> <<"r", "e", "a", "d", "-", "o", "n", "l", "y">>
      [] m = "WorkspaceWrite" -> <<"w", "o", "r", "k", "s", "p", "a", "c", "e", "-", "w", "r", "i", "t", "e">>

KebabNetworkAccess(n) ==
    CASE n = "Restricted" -> <<"r", "e", "s", "t", "r", "i", "c", "t", "e", "d">>
      [] n = "Enabled" -> <<"e", "n", "a", "b", "l", "e", "d">>

Element(name, text) ==
    <<" ", " ", "<">> \o name \o <<">">> \o text \o <<"<", "/">> \o name \o <<">", "\n">>

(* PathBuf serializes through to_str(), which fails on a path that is not UTF-8 *)
PathToStr(p) ==
    IF \E i \in 1..Len(p) : p[i] = InvalidByte THEN None ELSE Some(p)

EnvironmentContextXml(ec) ==
    <<"<", "e", "n", "v", "i", "r", "o", "n", "m", "e", "n", "t", "_", "c", "o", "n", "t", "e", "x", "t", ">", "\n">>
        \o Element(<<"c", "w", "d">>, Unwrap(PathToStr(ec.cwd)))
        \o Element(<<"a", "p", "p", "r", "o", "v", "a", "l", "_", "p", "o", "l", "i", "c", "y">>, KebabApproval(ec.approval_policy))
        \o Element(<<"s", "a", "n", "d", "b", "o", "x", "_", "m", "o", "d", "e">>, KebabSandboxMode(ec.sandbox_mode))
        \o Element(<<"n", "e", "t", "w", "o", "r", "k", "_", "a", "c", "c", "e", "s", "s">>, KebabNetworkAccess(ec.network_access))
        \o <<"<", "/", "e", "n", "v", "i", "r", "o", "n", "m", "e", "n", "t", "_", "c", "o", "n", "t", "e", "x", "t", ">">>

(* What the serializer may already have written into the buffer when a field fails *)
PartialBuffers == {<<>>, <<"<", "e", "n", "v", "i", "r", "o", "n", "m", "e", "n", "t", "_", "c", "o", "n", "t", "e", "x", "t">>}

(* ec.serialize(ser): Ok with the whole document in the buffer, or Err with   *)
(* the buffer left as the serializer had it, which is `partial`.              *)
Serialize(ec, partial) ==
    IF IsSome(PathToStr(ec.cwd))
    THEN [ok |-> TRUE, buffer |-> EnvironmentContextXml(ec)]
    ELSE [ok |-> FALSE, buffer |-> partial]

-----------------------------------------------------------------------------
(* impl Prompt *)
get_full_instructions_space_separator(p, model) ==
    LET base == IF IsSome(p.base_instructions_override)
                THEN Unwrap(p.base_instructions_override)
                ELSE BASE_INSTRUCTIONS
        sections == IF model.needs_special_apply_patch_instructions
                    THEN <<base, APPLY_PATCH_TOOL_INSTRUCTIONS>>
                    ELSE <<base>>
    IN Join(sections, <<" ">>)

get_full_instructions(p, model) ==
    LET base == IF IsSome(p.base_instructions_override)
                THEN Unwrap(p.base_instructions_override)
                ELSE BASE_INSTRUCTIONS
        sections == IF model.needs_special_apply_patch_instructions
                    THEN <<base, APPLY_PATCH_TOOL_INSTRUCTIONS>>
                    ELSE <<base>>
    IN Join(sections, <<"\n">>)

get_formatted_user_instructions_skip_empty(p) ==
    IF IsSome(p.user_instructions) /\ Unwrap(p.user_instructions) # <<>>
    THEN Some(Concat3(USER_INSTRUCTIONS_START, Unwrap(p.user_instructions),
                      USER_INSTRUCTIONS_END))
    ELSE None

get_formatted_user_instructions(p) ==
    IF IsSome(p.user_instructions)
    THEN Some(Concat3(USER_INSTRUCTIONS_START, Unwrap(p.user_instructions),
                      USER_INSTRUCTIONS_END))
    ELSE None

(* The Err of serialize is logged and the buffer is returned all the same *)
get_formatted_environment_context(p, partial) ==
    IF ~IsSome(p.environment_context) THEN None
    ELSE Some(Serialize(Unwrap(p.environment_context), partial).buffer)

get_formatted_input_instructions_first(p, partial) ==
    LET ec == get_formatted_environment_context(p, partial)
        ui == get_formatted_user_instructions(p)
    IN (IF IsSome(ui) THEN <<UserMessage(Unwrap(ui))>> ELSE <<>>)
        \o (IF IsSome(ec) THEN <<UserMessage(Unwrap(ec))>> ELSE <<>>)
        \o p.input

get_formatted_input(p, partial) ==
    LET ec == get_formatted_environment_context(p, partial)
        ui == get_formatted_user_instructions(p)
    IN (IF IsSome(ec) THEN <<UserMessage(Unwrap(ec))>> ELSE <<>>)
        \o (IF IsSome(ui) THEN <<UserMessage(Unwrap(ui))>> ELSE <<>>)
        \o p.input

-----------------------------------------------------------------------------
(* Inputs of a turn *)
HistoryItems ==
    {Message(<<"a", "s", "s", "i", "s", "t", "a", "n", "t">>, <<"o", "k">>),
     UserMessage(Concat3(USER_INSTRUCTIONS_START, <<"x">>, USER_INSTRUCTIONS_END))}

Histories == UNION {[1..n -> HistoryItems] : n \in 0..MaxHistory}

UserInstructionOptions == {None, Some(<<>>), Some(<<"x">>)}

OverrideOptions == {None, Some(<<"c", "u", "s", "t", "o", "m">>)}

NewPrompt(input, ui, store, override) ==
    [input |-> input, user_instructions |-> ui, store |-> store,
     environment_context |-> None, tools |-> <<>>,
     base_instructions_override |-> override]

-----------------------------------------------------------------------------
(* Reasoning parameter of the request *)
ReasoningEffortConfigs == {"Low", "Medium", "High", "None"}
ReasoningSummaryConfigs == {"Auto", "Concise", "Detailed", "None"}

ModelFamilies ==
    [needs_special_apply_patch_instructions : BOOLEAN,
     supports_reasoning_summaries : BOOLEAN]

(* impl From<ReasoningEffortConfig> for Option<OpenAiReasoningEffort> *)
EffortInto(e) ==
    CASE e = "Low" -> Some("Low")
      [] e = "Medium" -> Some("Medium")
      [] e = "High" -> Some("High")
      [] e = "None" -> None

(* impl From<ReasoningSummaryConfig> for Option<OpenAiReasoningSummary> *)
SummaryInto(s) ==
    CASE s = "Auto" -> Some("Auto")
      [] s = "Concise" -> Some("Concise")
      [] s = "Detailed" -> Some("Detailed")
      [] s = "None" -> None

create_reasoning_param_default_effort(family, e, s) ==
    IF family.supports_reasoning_summaries
    THEN LET eff == EffortInto(e)
         IN Some([effort |-> IF IsSome(eff) THEN Unwrap(eff) ELSE "Medium",
                  summary |-> SummaryInto(s)])
    ELSE None

create_reasoning_param_for_request(family, e, s) ==
    IF family.supports_reasoning_summaries
    THEN LET eff == EffortInto(e)
         IN IF ~IsSome(eff) THEN None
            ELSE Some([effort |-> Unwrap(eff), summary |-> SummaryInto(s)])
    ELSE None

(* #[serde(rename_all = "lowercase")] of the two wire enums *)
LowercaseEffort(v) ==
    CASE v = "Low" -> <<"l", "o", "w">>
      [] v = "Medium" -> <<"m", "e", "d", "i", "u", "m">>
      [] v = "High" -> <<"h", "i", "g", "h">>

LowercaseSummary(v) ==
    CASE v = "Auto" -> <<"a", "u", "t", "o">>
      [] v = "Concise" -> <<"c", "o", "n", "c", "i", "s", "e">>
      [] v = "Detailed" -> <<"d", "e", "t", "a", "i", "l", "e", "d">>

(* #[derive(Serialize)] of Reasoning: summary is skipped when it is None *)
SerializeReasoning(r) ==
    IF IsSome(r.summary)
    THEN [effort |-> LowercaseEffort(r.effort),
          summary |-> LowercaseSummary(Unwrap(r.summary))]
    ELSE [effort |-> LowercaseEffort(r.effort)]

-----------------------------------------------------------------------------
(* ResponseStream: the receiving half of a bounded mpsc channel *)
ChannelCapacity == 2
MaxPushed == 3
MaxPolled == 5

OkItem(event) == [ok |-> TRUE, event |-> event]
ErrItem(error) == [ok |-> FALSE, error |-> error]

(* Result<ResponseEvent> values the producer sends *)
StreamItems == {OkItem("Created"), OkItem("Completed"), ErrItem("Stream")}

(* mpsc::Receiver::poll_recv on a channel holding `queue`, whose Sender is   *)
(* alive iff `open`: the oldest item, or None once closed and drained, or    *)
(* Pending.                                                                  *)
poll_recv(queue, open) ==
    IF Len(queue) > 0
    THEN [ready |-> TRUE, value |-> Some(Head(queue)), rest |-> Tail(queue)]
    ELSE IF ~open
    THEN [ready |-> TRUE, value |-> None, rest |-> queue]
    ELSE [ready |-> FALSE, value |-> None, rest |-> queue]

poll_next_newest_first(queue, open) ==
    IF Len(queue) > 0
    THEN [ready |-> TRUE, value |-> Some(queue[Len(queue)]),
          rest |-> SubSeq(queue, 1, Len(queue) - 1)]
    ELSE poll_recv(queue, open)

poll_next_error_drains(queue, open) ==
    IF Len(queue) > 0 /\ ~Head(queue).ok
    THEN [ready |-> TRUE, value |-> Some(Head(queue)), rest |-> <<>>]
    ELSE poll_recv(queue, open)

(* impl Stream for ResponseStream *)
poll_next(queue, open) == poll_recv(queue, open)

-----------------------------------------------------------------------------
(* Terminal detection *)
IsWhitespace(c) == c \in {" ", "\t", "\n", "\r"}

RECURSIVE TrimStart(_)
TrimStart(s) ==
    IF Len(s) > 0 /\ IsWhitespace(Head(s)) THEN TrimStart(Tail(s)) ELSE s

RECURSIVE TrimEnd(_)
TrimEnd(s) ==
    IF Len(s) > 0 /\ IsWhitespace(s[Len(s)])
    THEN TrimEnd(SubSeq(s, 1, Len(s) - 1)) ELSE s

Trim(s) == TrimEnd(TrimStart(s))

IsEmpty(s) == Len(s) = 0

Contains(s, pat) ==
    \E i \in 0..(Len(s) - Len(pat)) : SubSeq(s, i + 1, i + Len(pat)) = pat

(* std::env::var(name).is_ok() and the value it holds *)
VarIsOk(e, name) == IsSome(e[name])
Var(e, name) == Unwrap(e[name])

EnvNames ==
    {"TERM_PROGRAM", "TERM_PROGRAM_VERSION", "WEZTERM_VERSION", "KITTY_WINDOW_ID",
     "TERM", "ALACRITTY_SOCKET", "KONSOLE_VERSION", "GNOME_TERMINAL_SCREEN",
     "VTE_VERSION", "WT_SESSION"}

detect_terminal_kitty_before_wezterm(e) ==
    IF VarIsOk(e, "TERM_PROGRAM") /\ ~IsEmpty(Trim(Var(e, "TERM_PROGRAM")))
    THEN IF VarIsOk(e, "TERM_PROGRAM_VERSION")
            /\ ~IsEmpty(Trim(Var(e, "TERM_PROGRAM_VERSION")))
         THEN Concat3(Var(e, "TERM_PROGRAM"), <<"/">>, Var(e, "TERM_PROGRAM_VERSION"))
         ELSE Var(e, "TERM_PROGRAM")
    ELSE IF \/ VarIsOk(e, "KITTY_WINDOW_ID")
            \/ (VarIsOk(e, "TERM") /\ Contains(Var(e, "TERM"), <<"k", "i", "t", "t", "y">>))
    THEN <<"k", "i", "t", "t", "y">>
    ELSE IF VarIsOk(e, "WEZTERM_VERSION")
    THEN IF ~IsEmpty(Trim(Var(e, "WEZTERM_VERSION")))
         THEN <<"W", "e", "z", "T", "e", "r", "m", "/">> \o Var(e, "WEZTERM_VERSION")
         ELSE <<"W", "e", "z", "T", "e", "r", "m">>
    ELSE IF \/ VarIsOk(e, "ALACRITTY_SOCKET")
            \/ (VarIsOk(e, "TERM") /\ Var(e, "TERM") = <<"a", "l", "a", "c", "r", "i", "t", "t", "y">>)
    THEN <<"A", "l", "a", "c", "r", "i", "t", "t", "y">>
    ELSE IF VarIsOk(e, "KONSOLE_VERSION")
    THEN IF ~IsEmpty(Trim(Var(e, "KONSOLE_VERSION")))
         THEN <<"K", "o", "n", "s", "o", "l", "e", "/">> \o Var(e, "KONSOLE_VERSION")
         ELSE <<"K", "o", "n", "s", "o", "l", "e">>
    ELSE IF VarIsOk(e, "GNOME_TERMINAL_SCREEN")
    THEN <<"g", "n", "o", "m", "e", "-", "t", "e", "r", "m", "i", "n", "a", "l">>
    ELSE IF VarIsOk(e, "VTE_VERSION")
    THEN IF ~IsEmpty(Trim(Var(e, "VTE_VERSION")))
         THEN <<"V", "T", "E", "/">> \o Var(e, "VTE_VERSION")
         ELSE <<"V", "T", "E">>
    ELSE IF VarIsOk(e, "WT_SESSION")
    THEN <<"W", "i", "n", "d", "o", "w", "s", "T", "e", "r", "m", "i", "n", "a", "l">>
    ELSE IF VarIsOk(e, "TERM") THEN Var(e, "TERM") ELSE <<"u", "n", "k", "n", "o", "w", "n">>

detect_terminal(e) ==
    IF VarIsOk(e, "TERM_PROGRAM") /\ ~IsEmpty(Trim(Var(e, "TERM_PROGRAM")))
    THEN IF VarIsOk(e, "TERM_PROGRAM_VERSION")
            /\ ~IsEmpty(Trim(Var(e, "TERM_PROGRAM_VERSION")))
         THEN Concat3(Var(e, "TERM_PROGRAM"), <<"/">>, Var(e, "TERM_PROGRAM_VERSION"))
         ELSE Var(e, "TERM_PROGRAM")
    ELSE IF VarIsOk(e, "WEZTERM_VERSION")
    THEN IF ~IsEmpty(Trim(Var(e, "WEZTERM_VERSION")))
         THEN <<"W", "e", "z", "T", "e", "r", "m", "/">> \o Var(e, "WEZTERM_VERSION")
         ELSE <<"W", "e", "z", "T", "e", "r", "m">>
    ELSE IF \/ VarIsOk(e, "KITTY_WINDOW_ID")
            \/ (VarIsOk(e, "TERM") /\ Contains(Var(e, "TERM"), <<"k", "i", "t", "t", "y">>))
    THEN <<"k", "i", "t", "t", "y">>
    ELSE IF \/ VarIsOk(e, "ALACRITTY_SOCKET")
            \/ (VarIsOk(e, "TERM") /\ Var(e, "TERM") = <<"a", "l", "a", "c", "r", "i", "t", "t", "y">>)
    THEN <<"A", "l", "a", "c", "r", "i", "t", "t", "y">>
    ELSE IF VarIsOk(e, "KONSOLE_VERSION")
    THEN IF ~IsEmpty(Trim(Var(e, "KONSOLE_VERSION")))
         THEN <<"K", "o", "n", "s", "o", "l", "e", "/">> \o Var(e, "KONSOLE_VERSION")
         ELSE <<"K", "o", "n", "s", "o", "l", "e">>
    ELSE IF VarIsOk(e, "GNOME_TERMINAL_SCREEN")
    THEN <<"g", "n", "o", "m", "e", "-", "t", "e", "r", "m", "i", "n", "a", "l">>
    ELSE IF VarIsOk(e, "VTE_VERSION")
    THEN IF ~IsEmpty(Trim(Var(e, "VTE_VERSION")))
         THEN <<"V", "T", "E", "/">> \o Var(e, "VTE_VERSION")
         ELSE <<"V", "T", "E">>
    ELSE IF VarIsOk(e, "WT_SESSION")
    THEN <<"W", "i", "n", "d", "o", "w", "s", "T", "e", "r", "m", "i", "n", "a", "l">>
    ELSE IF VarIsOk(e, "TERM") THEN Var(e, "TERM") ELSE <<"u", "n", "k", "n", "o", "w", "n">>

(* Once::call_once_force as seen by a caller of OnceLock::get_or_init: the  *)
(* first caller runs the initializer, a caller arriving meanwhile blocks,   *)
(* and a caller arriving afterwards reads the cell.                         *)
get_or_init_unsynchronized(state) ==
    IF state = "Complete" THEN "get" ELSE "detect"

get_or_init(state) ==
    CASE state = "Incomplete" -> "detect"
      [] state = "Running" -> "wait"
      [] state = "Complete" -> "get"

(* Bounds of the user_agent model *)
NumThreads == 2
MaxCalls == 2
MaxEnvChanges == 2

Threads == 1..NumThreads

UnsetEnv == [name \in EnvNames |-> None]

(* The environments detect_terminal is examined on *)
DetectEnvs ==
    [TERM_PROGRAM : {None, Some(<<>>), Some(<<" ">>), Some(<<"i", "T", "e", "r", "m", ".", "a", "p", "p">>)},
     TERM_PROGRAM_VERSION : {None, Some(<<" ">>), Some(<<"3", ".", "5", ".", "0">>)},
     WEZTERM_VERSION : {None, Some(<<>>), Some(<<"2", "0", "2", "4">>)},
     KITTY_WINDOW_ID : {None, Some(<<"1">>)},
     TERM : {None, Some(<<"x", "t", "e", "r", "m", "-", "k", "i", "t", "t", "y">>), Some(<<"a", "l", "a", "c", "r", "i", "t", "t", "y">>),
             Some(<<"a", "l", "a", "c", "r", "i", "t", "t", "y", "-", "d", "i", "r", "e", "c", "t">>), Some(<<"x", "t", "e", "r", "m", "-", "2", "5", "6", "c", "o", "l", "o", "r">>)},
     ALACRITTY_SOCKET : {None, Some(<<"/", "t", "m", "p", "/", "a", ".", "s", "o", "c", "k">>)},
     KONSOLE_VERSION : {None, Some(<<" ">>), Some(<<"2", "3", "0", "8", "0", "0">>)},
     GNOME_TERMINAL_SCREEN : {None, Some(<<"/", "o", "r", "g", "/", "g", "n", "o", "m", "e">>)},
     VTE_VERSION : {None, Some(<<>>), Some(<<"7", "6", "0", "0">>)},
     WT_SESSION : {None, Some(<<"w", "1">>)}]

(* What set_var and remove_var write while user_agent runs *)
ChangedNames == {"TERM_PROGRAM", "TERM"}
ChangedValues(name) ==
    IF name = "TERM_PROGRAM" THEN {None, Some(<<"i", "T", "e", "r", "m", ".", "a", "p", "p">>)}
    ELSE {None, Some(<<"x", "t", "e", "r", "m", "-", "2", "5", "6", "c", "o", "l", "o", "r">>), Some(<<"x", "t", "e", "r", "m", "-", "k", "i", "t", "t", "y">>)}

TerminalIdle ==
    /\ env = UnsetEnv
    /\ TERMINAL = None
    /\ once = "Incomplete"
    /\ pc = [t \in Threads |-> "idle"]
    /\ seen = UnsetEnv
    /\ returned = [t \in Threads |-> <<>>]
    /\ detections = 0
    /\ env_changes = 0

-----------------------------------------------------------------------------
(* The values each group of variables holds while another part runs *)
PromptIdle ==
    /\ sess = [cwd |-> <<"/", "r", "e", "p", "o">>, approval_policy |-> "OnRequest",
               sandbox_policy |-> [kind |-> "ReadOnly"]]
    /\ prompt = NewPrompt(<<>>, None, FALSE, None)
    /\ formatted_input = None
    /\ error_logged = FALSE

RequestIdle ==
    /\ model_family = [needs_special_apply_patch_instructions |-> FALSE,
                       supports_reasoning_summaries |-> FALSE]
    /\ effort = "Medium"
    /\ summary = "Auto"
    /\ full_instructions = None
    /\ reasoning = None

StreamIdle ==
    /\ rx_event = <<>>
    /\ tx_open = TRUE
    /\ rx_waker = FALSE
    /\ pushed = <<>>
    /\ polled = <<>>

-----------------------------------------------------------------------------
(* Building the input sequence of a turn: Spec *)

(* the caller fills Prompt::environment_context from the session *)
BuildEnvironmentContext ==
    /\ ~IsSome(prompt.environment_context)
    /\ formatted_input = None
    /\ prompt' = [prompt EXCEPT
                    !.environment_context = Some(EnvironmentContextFrom(sess))]
    /\ UNCHANGED <<sess, formatted_input, error_logged>>
    /\ UNCHANGED <<requestVars, streamVars, terminalVars>>

(* Prompt::get_formatted_input, with the tracing::error! of its callee *)
GetFormattedInput ==
    \E partial \in PartialBuffers :
        /\ formatted_input' = Some(get_formatted_input(prompt, partial))
        /\ error_logged' =
              (/\ IsSome(prompt.environment_context)
               /\ ~Serialize(Unwrap(prompt.environment_context), partial).ok)
        /\ UNCHANGED <<sess, prompt>>
        /\ UNCHANGED <<requestVars, streamVars, terminalVars>>

-----------------------------------------------------------------------------
(* Composing the request of a turn: SpecRequest *)

(* Prompt::get_full_instructions *)
GetFullInstructions ==
    /\ full_instructions' = Some(get_full_instructions(prompt, model_family))
    /\ UNCHANGED <<model_family, effort, summary, reasoning>>
    /\ UNCHANGED <<promptVars, streamVars, terminalVars>>

(* create_reasoning_param_for_request *)
CreateReasoningParam ==
    /\ reasoning' = Some(create_reasoning_param_for_request(model_family, effort, summary))
    /\ UNCHANGED <<model_family, effort, summary, full_instructions>>
    /\ UNCHANGED <<promptVars, streamVars, terminalVars>>

-----------------------------------------------------------------------------
(* Producer and consumer of a response stream: SpecStream *)

(* Sender::send: suspends while the channel is full *)
Send(item) ==
    /\ tx_open
    /\ Len(pushed) < MaxPushed
    /\ Len(rx_event) < ChannelCapacity
    /\ rx_event' = Append(rx_event, item)
    /\ pushed' = Append(pushed, item)
    /\ rx_waker' = FALSE
    /\ UNCHANGED <<tx_open, polled>>
    /\ UNCHANGED <<promptVars, requestVars, terminalVars>>

(* the producer drops its Sender *)
DropSender ==
    /\ tx_open
    /\ tx_open' = FALSE
    /\ rx_waker' = FALSE
    /\ UNCHANGED <<rx_event, pushed, polled>>
    /\ UNCHANGED <<promptVars, requestVars, terminalVars>>

(* ResponseStream::poll_next *)
PollNext ==
    /\ Len(polled) < MaxPolled
    /\ LET r == poll_next(rx_event, tx_open)
       IN IF r.ready
          THEN /\ polled' = Append(polled, r.value)
               /\ rx_event' = r.rest
               /\ rx_waker' = FALSE
          ELSE /\ rx_waker' = TRUE
               /\ UNCHANGED <<polled, rx_event>>
    /\ UNCHANGED <<tx_open, pushed>>
    /\ UNCHANGED <<promptVars, requestVars, terminalVars>>

-----------------------------------------------------------------------------
(* user_agent called from several threads while the environment changes:   *)
(* SpecTerminal                                                            *)

(* a thread enters user_agent *)
Call(t) ==
    /\ pc[t] = "idle"
    /\ Len(returned[t]) < MaxCalls
    /\ pc' = [pc EXCEPT ![t] = "get_or_init"]
    /\ UNCHANGED <<env, TERMINAL, once, seen, returned, detections, env_changes>>
    /\ UNCHANGED <<promptVars, requestVars, streamVars>>

(* OnceLock::get_or_init: read the cell, become the initializer, or block *)
GetOrInit(t) ==
    /\ pc[t] = "get_or_init"
    /\ LET next == get_or_init(once)
       IN /\ pc' = [pc EXCEPT ![t] = next]
          /\ IF next = "detect"
             THEN /\ once' = "Running"
                  /\ seen' = env
                  /\ detections' = detections + 1
             ELSE UNCHANGED <<once, seen, detections>>
    /\ UNCHANGED <<env, TERMINAL, returned, env_changes>>
    /\ UNCHANGED <<promptVars, requestVars, streamVars>>

(* detect_terminal returns and the initializer fills the cell *)
FinishDetect(t) ==
    /\ pc[t] = "detect"
    /\ TERMINAL' = Some(detect_terminal(seen))
    /\ once' = "Complete"
    /\ pc' = [pc EXCEPT ![t] = "get"]
    /\ UNCHANGED <<env, seen, returned, detections, env_changes>>
    /\ UNCHANGED <<promptVars, requestVars, streamVars>>

(* a blocked caller is released once the cell is filled *)
Wake(t) ==
    /\ pc[t] = "wait"
    /\ once = "Complete"
    /\ pc' = [pc EXCEPT ![t] = "get"]
    /\ UNCHANGED <<env, TERMINAL, once, seen, returned, detections, env_changes>>
    /\ UNCHANGED <<promptVars, requestVars, streamVars>>

(* .to_string() of the cell's value is returned *)
Return(t) ==
    /\ pc[t] = "get"
    /\ returned' = [returned EXCEPT ![t] = Append(@, Unwrap(TERMINAL))]
    /\ pc' = [pc EXCEPT ![t] = "idle"]
    /\ UNCHANGED <<env, TERMINAL, once, seen, detections, env_changes>>
    /\ UNCHANGED <<promptVars, requestVars, streamVars>>

(* std::env::set_var / remove_var by the process. detect_terminal reads one *)
(* variable at a time, so a detection under way sees the new value iff it   *)
(* has not read that variable yet.                                          *)
SetVar ==
    /\ env_changes < MaxEnvChanges
    /\ \E name \in ChangedNames : \E value \in ChangedValues(name) :
          /\ env[name] # value
          /\ env' = [env EXCEPT ![name] = value]
          /\ \/ seen' = seen
             \/ /\ \E t \in Threads : pc[t] = "detect"
                /\ seen' = [seen EXCEPT ![name] = value]
    /\ env_changes' = env_changes + 1
    /\ UNCHANGED <<TERMINAL, once, pc, returned, detections>>
    /\ UNCHANGED <<promptVars, requestVars, streamVars>>

-----------------------------------------------------------------------------
(* Specifications *)
Init ==
    /\ sess \in Sessions
    /\ \E input \in Histories : \E ui \in UserInstructionOptions :
          prompt = NewPrompt(input, ui, TRUE, None)
    /\ formatted_input = None
    /\ error_logged = FALSE
    /\ RequestIdle /\ StreamIdle /\ TerminalIdle

Next == BuildEnvironmentContext \/ GetFormattedInput

Spec == Init /\ [][Next]_vars

InitRequest ==
    /\ sess = [cwd |-> <<"/", "r", "e", "p", "o">>, approval_policy |-> "OnRequest",
               sandbox_policy |-> [kind |-> "ReadOnly"]]
    /\ \E input \in {h \in Histories : Len(h) <= 1} :
       \E ui \in UserInstructionOptions : \E store \in BOOLEAN :
       \E override \in OverrideOptions :
          prompt = NewPrompt(input, ui, store, override)
    /\ formatted_input = None
    /\ error_logged = FALSE
    /\ model_family \in ModelFamilies
    /\ effort \in ReasoningEffortConfigs
    /\ summary \in ReasoningSummaryConfigs
    /\ full_instructions = None
    /\ reasoning = None
    /\ StreamIdle /\ TerminalIdle

NextRequest == GetFullInstructions \/ CreateReasoningParam

SpecRequest == InitRequest /\ [][NextRequest]_vars

InitStream == PromptIdle /\ RequestIdle /\ StreamIdle /\ TerminalIdle

NextStream == (\E item \in StreamItems : Send(item)) \/ DropSender \/ PollNext

SpecStream == InitStream /\ [][NextStream]_vars

InitTerminal ==
    /\ PromptIdle /\ RequestIdle /\ StreamIdle
    /\ env \in {[UnsetEnv EXCEPT !["TERM"] = v] : v \in ChangedValues("TERM")}
    /\ seen = env
    /\ TERMINAL = None
    /\ once = "Incomplete"
    /\ pc = [t \in Threads |-> "idle"]
    /\ returned = [t \in Threads |-> <<>>]
    /\ detections = 0
    /\ env_changes = 0

NextTerminal ==
    \/ \E t \in Threads : Call(t)
    \/ \E t \in Threads : GetOrInit(t)
    \/ \E t \in Threads : FinishDetect(t)
    \/ \E t \in Threads : Wake(t)
    \/ \E t \in Threads : Return(t)
    \/ SetVar

SpecTerminal == InitTerminal /\ [][NextTerminal]_vars

InitDetect ==
    /\ PromptIdle /\ RequestIdle /\ StreamIdle
    /\ env \in DetectEnvs
    /\ seen = env
    /\ TERMINAL = None
    /\ once = "Incomplete"
    /\ pc = [t \in Threads |-> "idle"]
    /\ returned = [t \in Threads |-> <<>>]
    /\ detections = 0
    /\ env_changes = 0

(* one thread calling user_agent in an environment nobody changes *)
NextDetect == Call(1) \/ GetOrInit(1) \/ FinishDetect(1) \/ Return(1)

SpecDetect == InitDetect /\ [][NextDetect]_vars

-----------------------------------------------------------------------------
(* Claims about the input sequence *)
EnvCount == IF IsSome(prompt.environment_context) THEN 1 ELSE 0
UiCount == IF IsSome(prompt.user_instructions) THEN 1 ELSE 0
WrappedUserInstructions ==
    UserMessage(USER_INSTRUCTIONS_START \o Unwrap(prompt.user_instructions)
                    \o USER_INSTRUCTIONS_END)
SerializationFails ==
    /\ IsSome(prompt.environment_context)
    /\ ~IsSome(PathToStr(Unwrap(prompt.environment_context).cwd))

\* C1: the environment-context message (if any) comes first, the
\* user-instructions message (if any) next, and the history is the suffix of
\* the result, verbatim and in its original order.
C1_InputOrdering ==
    IsSome(formatted_input) =>
        LET r == Unwrap(formatted_input)
            n == Len(r) - Len(prompt.input)
        IN  /\ n = EnvCount + UiCount
            /\ SubSeq(r, n + 1, Len(r)) = prompt.input
            /\ IsSome(prompt.user_instructions) => r[n] = WrappedUserInstructions
            /\ IsSome(prompt.environment_context) =>
                  \E partial \in PartialBuffers :
                      r[1] = UserMessage(
                          Serialize(Unwrap(prompt.environment_context), partial).buffer)

C1_Witness ==
    /\ IsSome(formatted_input)
    /\ IsSome(prompt.environment_context)
    /\ IsSome(prompt.user_instructions)
    /\ Len(prompt.input) >= 2
    /\ prompt.input[1] # prompt.input[2]

\* C2: when serialization of a present environment context fails, the error
\* is logged and the result holds no environment-context message at all: it
\* is the user-instructions message (if any) followed by the history.
C2_OmittedOnFailure ==
    (IsSome(formatted_input) /\ SerializationFails) =>
        /\ error_logged
        /\ Unwrap(formatted_input) =
              (IF IsSome(prompt.user_instructions)
               THEN <<WrappedUserInstructions>> ELSE <<>>) \o prompt.input

\* C3 as stated: a user-instructions message is in the result iff
\* userInstructions is present and non-empty, and then it is the wrapped text.
C3_NonEmptyOnly ==
    IsSome(formatted_input) =>
        LET r == Unwrap(formatted_input)
            n == Len(r) - Len(prompt.input)
        IN  /\ (n - EnvCount = 1) <=>
                  (/\ IsSome(prompt.user_instructions)
                   /\ Unwrap(prompt.user_instructions) # <<>>)
            /\ (n - EnvCount = 1) => r[n] = WrappedUserInstructions

\* C3 amended: a user-instructions message is in the result iff
\* userInstructions is present, empty or not, and its text is the user
\* instructions between the start marker and the end marker.
C3_PresentOnly ==
    IsSome(formatted_input) =>
        LET r == Unwrap(formatted_input)
            n == Len(r) - Len(prompt.input)
        IN  /\ (n - EnvCount = 1) <=> IsSome(prompt.user_instructions)
            /\ (n - EnvCount = 1) =>
                  /\ r[n].role = <<"u", "s", "e", "r">>
                  /\ Len(r[n].content) = 1
                  /\ r[n].content[1].text =
                        USER_INSTRUCTIONS_START
                            \o Unwrap(prompt.user_instructions)
                            \o USER_INSTRUCTIONS_END

C3_Witness ==
    /\ IsSome(formatted_input)
    /\ prompt.user_instructions = Some(<<>>)
    /\ Len(Unwrap(formatted_input)) = Len(prompt.input) + EnvCount + 1

\* C8: networkAccess of an EnvironmentContext built from a session is enabled
\* iff the sandbox mode is danger-full-access, or it is workspace-write and
\* the policy's network flag is true; otherwise it is restricted.
C8_NetworkAccess ==
    IsSome(prompt.environment_context) =>
        LET ec == Unwrap(prompt.environment_context)
            on == \/ ec.sandbox_mode = "DangerFullAccess"
                  \/ /\ ec.sandbox_mode = "WorkspaceWrite"
                     /\ sess.sandbox_policy.network_access
        IN  /\ ec.sandbox_mode = sess.sandbox_policy.kind
            /\ ec.network_access = (IF on THEN "Enabled" ELSE "Restricted")

C8_Witness ==
    /\ IsSome(prompt.environment_context)
    /\ sess.sandbox_policy = [kind |-> "WorkspaceWrite", network_access |-> TRUE]
    /\ Unwrap(prompt.environment_context).network_access = "Enabled"

-----------------------------------------------------------------------------
(* Claims about the request *)

WireEffort ==
    CASE effort = "Low" -> <<"l", "o", "w">>
      [] effort = "Medium" -> <<"m", "e", "d", "i", "u", "m">>
      [] effort = "High" -> <<"h", "i", "g", "h">>
      [] effort = "None" -> <<>>

WireSummary ==
    CASE summary = "Auto" -> <<"a", "u", "t", "o">>
      [] summary = "Concise" -> <<"c", "o", "n", "c", "i", "s", "e">>
      [] summary = "Detailed" -> <<"d", "e", "t", "a", "i", "l", "e", "d">>
      [] summary = "None" -> <<>>

\* C6: no reasoning block when the family does not support reasoning
\* summaries or when the effort is "none"; otherwise a block whose effort is
\* the wire value of the configured effort and whose summary is the wire
\* value of the configured summary, absent exactly when that is "none".
C6_ReasoningParam ==
    IsSome(reasoning) =>
        LET r == Unwrap(reasoning)
        IN  IF ~model_family.supports_reasoning_summaries \/ effort = "None"
            THEN r = None
            ELSE /\ IsSome(r)
                 /\ SerializeReasoning(Unwrap(r)).effort = WireEffort
                 /\ ("summary" \in DOMAIN SerializeReasoning(Unwrap(r))) <=> (summary # "None")
                 /\ summary # "None" => SerializeReasoning(Unwrap(r)).summary = WireSummary

C6_Witness ==
    /\ IsSome(reasoning)
    /\ IsSome(Unwrap(reasoning))
    /\ effort = "High"
    /\ summary = "None"
    /\ Unwrap(Unwrap(reasoning)).summary = None

-----------------------------------------------------------------------------
(* Claims about the response stream *)
Delivered == SelectSeq(polled, IsSome)
DeliveredItems == [i \in 1..Len(Delivered) |-> Unwrap(Delivered[i])]
IsError(result) == IsSome(result) /\ ~Unwrap(result).ok

\* C4 as stated: once poll_next has yielded an error item, every later poll
\* yields stream-end.
C4_ErrorTerminates ==
    \A i \in 1..Len(polled) : \A j \in 1..Len(polled) :
        (i < j /\ IsError(polled[i])) => polled[j] = None

\* C4 amended: an error item is delivered like any other item, in its place
\* in the enqueue order, and does not end the stream: the poll after it
\* yields the item enqueued after the error when there is one, and
\* stream-end only when the producer closed with nothing enqueued after it.
C4_ErrorIsAnItem ==
    \A i \in 1..Len(polled) :
        IsError(polled[i]) =>
            /\ polled[i] = Some(pushed[i])
            /\ i < Len(polled) =>
                  IF Len(pushed) > i
                  THEN polled[i + 1] = Some(pushed[i + 1])
                  ELSE polled[i + 1] = None /\ ~tx_open

C4_Witness ==
    \E i \in 1..Len(polled) :
        /\ IsError(polled[i])
        /\ i < Len(polled)
        /\ IsSome(polled[i + 1])
        /\ Unwrap(polled[i + 1]).ok

\* C5: the consumer receives exactly the pushed items in enqueue order, none
\* lost, duplicated, reordered or coalesced, under every interleaving;
\* stream-end is yielded only after the producer closed and every item was
\* delivered, it is not an error, and every later poll yields it again.
C5_EnqueueOrder ==
    /\ DeliveredItems \o rx_event = pushed
    /\ \A i \in 1..Len(polled) :
          polled[i] = None =>
              /\ ~tx_open
              /\ DeliveredItems = pushed
              /\ \A j \in i..Len(polled) : polled[j] = None
    /\ (pushed = <<>> /\ polled # <<>>) => polled[1] = None

C5_Witness ==
    /\ Len(pushed) = MaxPushed
    /\ pushed[1] # pushed[2]
    /\ Len(polled) = MaxPushed + 2
    /\ polled[MaxPushed + 1] = None
    /\ polled[MaxPushed + 2] = None

-----------------------------------------------------------------------------
(* Claims about the terminal identity *)

\* C7: detect_terminal runs at most once per process, and every call of
\* user_agent, from every thread, returns the string that one detection
\* produced, whatever happens to the environment afterwards.
C7_DetectedOnce ==
    /\ detections <= 1
    /\ IsSome(TERMINAL) => detections = 1
    /\ \A t \in Threads : \A i \in 1..Len(returned[t]) :
          /\ IsSome(TERMINAL)
          /\ returned[t][i] = Unwrap(TERMINAL)
    /\ \A t \in Threads : \A u \in Threads :
          \A i \in 1..Len(returned[t]) : \A j \in 1..Len(returned[u]) :
              returned[t][i] = returned[u][j]

C7_Witness ==
    /\ \A t \in Threads : Len(returned[t]) >= 1
    /\ \E t \in Threads : Len(returned[t]) >= 2
    /\ env_changes >= 1
    /\ Unwrap(TERMINAL) # detect_terminal(env)

NonBlank(name) ==
    /\ env[name] # None
    /\ \E i \in 1..Len(env[name][1]) : env[name][1][i] \notin {" ", "\t", "\n", "\r"}
Present(name) == env[name] # None
WithVersion(label, name) ==
    IF NonBlank(name) THEN label \o <<"/">> \o env[name][1] ELSE label
TermIs(p) == Present("TERM") /\ env.TERM[1] = p
TermHas(p) ==
    /\ Present("TERM")
    /\ \E a \in 0..Len(env.TERM[1]) : \E b \in 0..Len(env.TERM[1]) :
          /\ a + Len(p) + b = Len(env.TERM[1])
          /\ \A k \in 1..Len(p) : env.TERM[1][a + k] = p[k]
Step1 == NonBlank("TERM_PROGRAM")
Step2 == Present("WEZTERM_VERSION")
Step3 == Present("KITTY_WINDOW_ID") \/ TermHas(<<"k", "i", "t", "t", "y">>)
Step4 == Present("ALACRITTY_SOCKET") \/ TermIs(<<"a", "l", "a", "c", "r", "i", "t", "t", "y">>)
Step5 == Present("KONSOLE_VERSION")
Step6 == Present("GNOME_TERMINAL_SCREEN")
Step7 == Present("VTE_VERSION")
Step8 == Present("WT_SESSION")

\* C9: detection follows the nine steps in order and the first match wins.
C9_DetectionOrder ==
    IsSome(TERMINAL) =>
        LET id == Unwrap(TERMINAL)
        IN  /\ Step1 => id = WithVersion(env.TERM_PROGRAM[1], "TERM_PROGRAM_VERSION")
            /\ (~Step1 /\ Step2) => id = WithVersion(<<"W", "e", "z", "T", "e", "r", "m">>, "WEZTERM_VERSION")
            /\ (~Step1 /\ ~Step2 /\ Step3) => id = <<"k", "i", "t", "t", "y">>
            /\ (~Step1 /\ ~Step2 /\ ~Step3 /\ Step4) => id = <<"A", "l", "a", "c", "r", "i", "t", "t", "y">>
            /\ (~Step1 /\ ~Step2 /\ ~Step3 /\ ~Step4 /\ Step5) =>
                  id = WithVersion(<<"K", "o", "n", "s", "o", "l", "e">>, "KONSOLE_VERSION")
            /\ (~Step1 /\ ~Step2 /\ ~Step3 /\ ~Step4 /\ ~Step5 /\ Step6) =>
                  id = <<"g", "n", "o", "m", "e", "-", "t", "e", "r", "m", "i", "n", "a", "l">>
            /\ (~Step1 /\ ~Step2 /\ ~Step3 /\ ~Step4 /\ ~Step5 /\ ~Step6 /\ Step7) =>
                  id = WithVersion(<<"V", "T", "E">>, "VTE_VERSION")
            /\ (~Step1 /\ ~Step2 /\ ~Step3 /\ ~Step4 /\ ~Step5 /\ ~Step6 /\ ~Step7
                    /\ Step8) => id = <<"W", "i", "n", "d", "o", "w", "s", "T", "e", "r", "m", "i", "n", "a", "l">>
            /\ (~Step1 /\ ~Step2 /\ ~Step3 /\ ~Step4 /\ ~Step5 /\ ~Step6 /\ ~Step7
                    /\ ~Step8) =>
                  id = (IF Present("TERM") THEN env.TERM[1] ELSE <<"u", "n", "k", "n", "o", "w", "n">>)

C9_Witness ==
    /\ TERMINAL = Some(<<"V", "T", "E", "/", "7", "6", "0", "0">>)
    /\ env.TERM_PROGRAM = Some(<<" ">>)
    /\ env.TERM = Some(<<"a", "l", "a", "c", "r", "i", "t", "t", "y", "-", "d", "i", "r", "e", "c", "t">>)
    /\ env.WT_SESSION # None

=============================================================================
